---- MODULE Spec2Model ----
(***************************************************************************)
(* Model of the browser-side API client                                    *)
(* src/frontend/src/controllers/API/index.ts.                              *)
(*                                                                         *)
(* Every exported function is an async wrapper around one call of the      *)
(* shared HTTP client `api`.  The client itself is an external             *)
(* collaborator: a call either resolves to a response {status, data} or    *)
(* rejects with an error object, and the model draws that outcome          *)
(* nondeterministically.  Calls are stateless, so the state holds the      *)
(* trace of the invocation that ran last: the requests it issued, the      *)
(* lines it logged, what the transport answered and how it completed.      *)
(* getExamples is the one function with several calls in flight; it is     *)
(* modelled step by step.                                                  *)
(***************************************************************************)
EXTENDS Integers, Sequences, FiniteSets, TLC

VARIABLES
    pc,         \* "idle", or "fanout" while getExamples has downloads in flight
    op,         \* name of the function invoked last ("none" initially)
    args,       \* its arguments
    requests,   \* sequence of the requests it handed to the transport
    logs,       \* sequence of the console lines it wrote
    transport,  \* outcome of its first transport call (NoCall if none was made)
    outcome,    \* how its promise settled: Pending, Returned(v) or Raised(e)
    jsonFiles,  \* getExamples: the filtered listing
    settled,    \* getExamples: per download, Pending or the transport outcome
    reordered   \* getExamples: some download settled before an earlier one

vars == <<pc, op, args, requests, logs, transport, outcome,
          jsonFiles, settled, reordered>>

-----------------------------------------------------------------------------
(* JavaScript values *)

Undefined == [t |-> "undefined"]
Null == [t |-> "null"]
Str(s) == [t |-> "string", s |-> s]
Num(n) == [t |-> "number", n |-> n]
Arr(items) == [t |-> "array", items |-> items]
\* A decoded JSON object; a property the object lacks reads as undefined.
Obj(id, detail, stars) ==
    [t |-> "object", id |-> id, detail |-> detail, stargazers_count |-> stars]

\* new Error(message): a fresh object, distinct from any error the transport raised.
NewError(message) == [t |-> "error", message |-> message, origin |-> "local"]
\* An error object raised by the transport.
TransportError(message) == [t |-> "error", message |-> message, origin |-> "transport"]

\* value.name for a value that is neither null nor undefined.
Prop(v, key) == IF key \in DOMAIN v THEN v[key] ELSE Undefined

\* Template literal / String(v) of the values that reach an Error message here.
ToStr(v) ==
    CASE v.t = "string" -> v.s
      [] v.t = "number" -> ToString(v.n)
      [] v.t = "undefined" -> ""      \* new Error(undefined).message is ""
      [] v.t = "null" -> "null"
      [] OTHER -> "[object Object]"

-----------------------------------------------------------------------------
(* The transport: api.get / api.post / api.patch / api.delete *)

BASE_URL_API == "/api/v1/"
GITHUB_API_URL == "https://api.github.com"

Request(method, url, body, headers) ==
    [method |-> method, url |-> url, body |-> body, headers |-> headers]

NoCall == [data |-> Undefined, reason |-> Undefined, kind |-> "none", status |-> 0]
Response(status, data) ==
    [data |-> data, reason |-> Undefined, kind |-> "response", status |-> status]
Failure(e) == [data |-> Undefined, reason |-> e, kind |-> "error", status |-> 0]

Statuses == {200, 201, 204, 400, 500}

Datas == {
    Obj("abc", Undefined, Undefined),
    Obj("u1", Str("username taken"), Undefined),
    Obj("repo", Undefined, Num(42)),
    Arr(<<Obj("u1", Undefined, Undefined), Obj("u2", Undefined, Undefined)>>) }

TransportErrors == {
    TransportError("Network Error"),
    TransportError("HTTP error! status: 500") }

TransportOutcomes ==
    {Response(s, d) : s \in Statuses, d \in Datas}
      \cup {Failure(e) : e \in TransportErrors}

-----------------------------------------------------------------------------
(* The trace of one invocation *)

Pending == [kind |-> "pending", value |-> Undefined]
Returned(v) == [kind |-> "returned", value |-> v]
Raised(e) == [kind |-> "raised", value |-> e]

ConsoleError(e) == [args |-> <<e>>, channel |-> "error"]
ConsoleLog(e) == [args |-> <<Str("Error:"), e>>, channel |-> "log"]

Run(reqs, lines, t, out) ==
    [requests |-> reqs, logs |-> lines, transport |-> t, outcome |-> out]

\* catch (error) { console.error(error); throw error; }
CatchError(req, t, e) == Run(<<req>>, <<ConsoleError(e)>>, t, Raised(e))
\* Variant: the catch block throws a new error wrapping the one it caught.
CatchLog_wrapped(req, t, e) ==
    Run(<<req>>, <<ConsoleLog(e)>>, t, Raised(NewError(e.message)))

\* catch (error) { console.log("Error:", error); throw error; }
CatchLog(req, t, e) == Run(<<req>>, <<ConsoleLog(e)>>, t, Raised(e))

HttpError(status) == NewError("HTTP error! status: " \o ToString(status))

-----------------------------------------------------------------------------
(* Arguments *)

Flows == {
    [id |-> "f1", data |-> Null, description |-> "d", name |-> "f1"],
    [id |-> "f2", data |-> Obj("g", Undefined, Undefined), description |-> "",
     name |-> "f2"] }
FlowIds == {"f1", "f2"}
FlowNumbers == {1, 2}
FlowBody(f) == [data |-> f.data, description |-> f.description, name |-> f.name]

-----------------------------------------------------------------------------
(* Flow operations: try { call; if (status !== expected) throw new Error;  *)
(* return data } catch (error) { console.error(error); throw error }       *)

\* Variant: a status mismatch falls through instead of throwing.
saveFlowToDatabase_silent(newFlow, t) ==
    LET req == Request("POST", BASE_URL_API \o "flows/", FlowBody(newFlow), "default")
    IN  IF t.kind = "error" THEN CatchError(req, t, t.reason)
        ELSE IF t.status = 201 THEN Run(<<req>>, <<>>, t, Returned(t.data))
        ELSE Run(<<req>>, <<>>, t, Returned(Undefined))

saveFlowToDatabase(newFlow, t) ==
    LET req == Request("POST", BASE_URL_API \o "flows/", FlowBody(newFlow), "default")
    IN  IF t.kind = "error" THEN CatchError(req, t, t.reason)
        ELSE IF t.status # 201 THEN CatchError(req, t, HttpError(t.status))
        ELSE Run(<<req>>, <<>>, t, Returned(t.data))

updateFlowInDatabase(updatedFlow, t) ==
    LET req == Request("PATCH", BASE_URL_API \o "flows/" \o updatedFlow.id,
                       FlowBody(updatedFlow), "default")
    IN  IF t.kind = "error" THEN CatchError(req, t, t.reason)
        ELSE IF t.status # 200 THEN CatchError(req, t, HttpError(t.status))
        ELSE Run(<<req>>, <<>>, t, Returned(t.data))

readFlowsFromDatabase(t) ==
    LET req == Request("GET", BASE_URL_API \o "flows/", Undefined, "default")
    IN  IF t.kind = "error" THEN CatchError(req, t, t.reason)
        ELSE IF t.status # 200 THEN CatchError(req, t, HttpError(t.status))
        ELSE Run(<<req>>, <<>>, t, Returned(t.data))

downloadFlowsFromDatabase(t) ==
    LET req == Request("GET", BASE_URL_API \o "flows/download/", Undefined, "default")
    IN  IF t.kind = "error" THEN CatchError(req, t, t.reason)
        ELSE IF t.status # 200 THEN CatchError(req, t, HttpError(t.status))
        ELSE Run(<<req>>, <<>>, t, Returned(t.data))

uploadFlowsToDatabase(flows, t) ==
    LET req == Request("POST", BASE_URL_API \o "flows/upload/", flows, "default")
    IN  IF t.kind = "error" THEN CatchError(req, t, t.reason)
        ELSE IF t.status # 201 THEN CatchError(req, t, HttpError(t.status))
        ELSE Run(<<req>>, <<>>, t, Returned(t.data))

deleteFlowFromDatabase(flowId, t) ==
    LET req == Request("DELETE", BASE_URL_API \o "flows/" \o flowId, Undefined, "default")
    IN  IF t.kind = "error" THEN CatchError(req, t, t.reason)
        ELSE IF t.status # 200 THEN CatchError(req, t, HttpError(t.status))
        ELSE Run(<<req>>, <<>>, t, Returned(t.data))

getFlowFromDatabase(flowId, t) ==
    LET req == Request("GET", BASE_URL_API \o "flows/" \o ToString(flowId),
                       Undefined, "default")
    IN  IF t.kind = "error" THEN CatchError(req, t, t.reason)
        ELSE IF t.status # 200 THEN CatchError(req, t, HttpError(t.status))
        ELSE Run(<<req>>, <<>>, t, Returned(t.data))

getFlowStylesFromDatabase(t) ==
    LET req == Request("GET", BASE_URL_API \o "flow_styles/", Undefined, "default")
    IN  IF t.kind = "error" THEN CatchError(req, t, t.reason)
        ELSE IF t.status # 200 THEN CatchError(req, t, HttpError(t.status))
        ELSE Run(<<req>>, <<>>, t, Returned(t.data))

saveFlowStyleToDatabase(flowStyle, t) ==
    LET req == Request("POST", BASE_URL_API \o "flow_styles/", flowStyle, "json")
    IN  IF t.kind = "error" THEN CatchError(req, t, t.reason)
        ELSE IF t.status # 201 THEN CatchError(req, t, HttpError(t.status))
        ELSE Run(<<req>>, <<>>, t, Returned(t.data))

-----------------------------------------------------------------------------
(* Third-party repository data *)

Owners == {"logspace-ai"}
Repos == {"langflow", "langflow_examples"}

\* Variant: the catch block logs and rethrows.
getRepoStars_rethrow(owner, repo, t) ==
    LET req == Request("GET", GITHUB_API_URL \o "/repos/" \o owner \o "/" \o repo,
                       Undefined, "default")
    IN  IF t.kind = "error" THEN CatchError(req, t, t.reason)
        ELSE Run(<<req>>, <<>>, t, Returned(Prop(t.data, "stargazers_count")))

\* Any failure inside the try block is logged and turned into null.
getRepoStars(owner, repo, t) ==
    LET req == Request("GET", GITHUB_API_URL \o "/repos/" \o owner \o "/" \o repo,
                       Undefined, "default")
    IN  IF t.kind = "error"
        THEN Run(<<req>>,
                 <<[args |-> <<Str("Error fetching repository data:"), t.reason>>,
                    channel |-> "error"]>>,
                 t, Returned(Null))
        ELSE Run(<<req>>, <<>>, t,
                 Returned(Prop(t.data, "stargazers_count")))

-----------------------------------------------------------------------------
(* Authentication *)

Logins == {[password |-> "pw", username |-> "admin"],
           [password |-> "", username |-> "bob"]}
Tokens == {"", "tokA", "tokB.x"}

\* catch (error) { throw error } : nothing is logged.
onLogin(user, t) ==
    LET req == Request("POST", BASE_URL_API \o "login",
                       [password |-> user.password, username |-> user.username],
                       "form-urlencoded")
    IN  IF t.kind = "error" THEN Run(<<req>>, <<>>, t, Raised(t.reason))
        ELSE IF t.status = 200 THEN Run(<<req>>, <<>>, t, Returned(t.data))
        ELSE Run(<<req>>, <<>>, t, Returned(Undefined))

\* Variant: a status other than 200 throws.
autoLogin_throws(t) ==
    LET req == Request("GET", BASE_URL_API \o "auto_login", Undefined, "default")
    IN  IF t.kind = "error" THEN Run(<<req>>, <<>>, t, Raised(t.reason))
        ELSE IF t.status = 200 THEN Run(<<req>>, <<>>, t, Returned(t.data))
        ELSE Run(<<req>>, <<>>, t, Raised(HttpError(t.status)))

autoLogin(t) ==
    LET req == Request("GET", BASE_URL_API \o "auto_login", Undefined, "default")
    IN  IF t.kind = "error" THEN Run(<<req>>, <<>>, t, Raised(t.reason))
        ELSE IF t.status = 200 THEN Run(<<req>>, <<>>, t, Returned(t.data))
        ELSE Run(<<req>>, <<>>, t, Returned(Undefined))

\* The response envelope, as returned by functions that do not unwrap .data.
Envelope(t) == [t |-> "response", data |-> t.data, status |-> t.status]

\* Variant: the token is not tested before the request.
renewAccessToken_unguarded(token, t) ==
    LET req == Request("POST", BASE_URL_API \o "refresh?token=" \o token,
                       Undefined, "default")
    IN  IF t.kind = "error" THEN CatchLog(req, t, t.reason)
        ELSE Run(<<req>>, <<>>, t, Returned(Envelope(t)))

\* if (token) { return await api.post(...) } : the empty string is falsy.
renewAccessToken(token, t) ==
    LET req == Request("POST", BASE_URL_API \o "refresh?token=" \o token,
                       Undefined, "default")
    IN  IF token = "" THEN Run(<<>>, <<>>, NoCall, Returned(Undefined))
        ELSE IF t.kind = "error" THEN CatchLog(req, t, t.reason)
        ELSE Run(<<req>>, <<>>, t, Returned(Envelope(t)))

-----------------------------------------------------------------------------
(* Users and API keys *)

UserInputs == {[password |-> "pw", username |-> "bob"]}
UserIds == {"u1", "u2"}
UserChanges == {[is_active |-> TRUE], [password |-> "new"]}
Skips == {0, 10}
Limits == {10}
KeyNames == {"ci"}
ApiKeys == {"k1", "k2"}

\* Variant: no `return null` after the try block.
getLoggedUser_undefined(t) ==
    LET req == Request("GET", BASE_URL_API \o "users/whoami", Undefined, "default")
    IN  IF t.kind = "error" THEN CatchLog(req, t, t.reason)
        ELSE IF t.status = 200 THEN Run(<<req>>, <<>>, t, Returned(t.data))
        ELSE Run(<<req>>, <<>>, t, Returned(Undefined))

getLoggedUser(t) ==
    LET req == Request("GET", BASE_URL_API \o "users/whoami", Undefined, "default")
    IN  IF t.kind = "error" THEN CatchLog(req, t, t.reason)
        ELSE IF t.status = 200 THEN Run(<<req>>, <<>>, t, Returned(t.data))
        ELSE Run(<<req>>, <<>>, t, Returned(Null))

\* Variant: the mismatch error carries the status, as the flow functions do.
addUser_statusMessage(user, t) ==
    LET req == Request("POST", BASE_URL_API \o "users/", user, "default")
    IN  IF t.kind = "error" THEN CatchLog(req, t, t.reason)
        ELSE IF t.status # 201 THEN CatchLog(req, t, HttpError(t.status))
        ELSE Run(<<req>>, <<>>, t, Returned(t.data))

\* The error thrown on a status mismatch carries res.data.detail, and is
\* caught, logged and rethrown by the function's own catch block.
addUser(user, t) ==
    LET req == Request("POST", BASE_URL_API \o "users/", user, "default")
    IN  IF t.kind = "error" THEN CatchLog(req, t, t.reason)
        ELSE IF t.status # 201
             THEN CatchLog(req, t, NewError(ToStr(Prop(t.data, "detail"))))
        ELSE Run(<<req>>, <<>>, t, Returned(t.data))

\* Variant: no `return []` after the try block.
getUsersPage_undefined(skip, limit, t) ==
    LET req == Request("GET",
                       BASE_URL_API \o "users/?skip=" \o ToString(skip)
                           \o "&limit=" \o ToString(limit),
                       Undefined, "default")
    IN  IF t.kind = "error" THEN CatchLog(req, t, t.reason)
        ELSE IF t.status = 200 THEN Run(<<req>>, <<>>, t, Returned(t.data))
        ELSE Run(<<req>>, <<>>, t, Returned(Undefined))

getUsersPage(skip, limit, t) ==
    LET req == Request("GET",
                       BASE_URL_API \o "users/?skip=" \o ToString(skip)
                           \o "&limit=" \o ToString(limit),
                       Undefined, "default")
    IN  IF t.kind = "error" THEN CatchLog(req, t, t.reason)
        ELSE IF t.status = 200 THEN Run(<<req>>, <<>>, t, Returned(t.data))
        ELSE Run(<<req>>, <<>>, t, Returned(Arr(<<>>)))

\* The remaining functions have no statement after the try block: a status
\* other than 200 falls off the end of the function, which yields undefined.
deleteUser(user_id, t) ==
    LET req == Request("DELETE", BASE_URL_API \o "users/" \o user_id, Undefined, "default")
    IN  IF t.kind = "error" THEN CatchLog(req, t, t.reason)
        ELSE IF t.status = 200 THEN Run(<<req>>, <<>>, t, Returned(t.data))
        ELSE Run(<<req>>, <<>>, t, Returned(Undefined))

updateUser(user_id, user, t) ==
    LET req == Request("PATCH", BASE_URL_API \o "users/" \o user_id, user, "default")
    IN  IF t.kind = "error" THEN CatchLog(req, t, t.reason)
        ELSE IF t.status = 200 THEN Run(<<req>>, <<>>, t, Returned(t.data))
        ELSE Run(<<req>>, <<>>, t, Returned(Undefined))

resetPassword(user_id, user, t) ==
    LET req == Request("PATCH",
                       BASE_URL_API \o "users/" \o user_id \o "/reset-password",
                       user, "default")
    IN  IF t.kind = "error" THEN CatchLog(req, t, t.reason)
        ELSE IF t.status = 200 THEN Run(<<req>>, <<>>, t, Returned(t.data))
        ELSE Run(<<req>>, <<>>, t, Returned(Undefined))

createApiKey(name, t) ==
    LET req == Request("POST", BASE_URL_API \o "api_key/", [name |-> name], "default")
    IN  IF t.kind = "error" THEN CatchLog(req, t, t.reason)
        ELSE IF t.status = 200 THEN Run(<<req>>, <<>>, t, Returned(t.data))
        ELSE Run(<<req>>, <<>>, t, Returned(Undefined))

deleteApiKey(api_key, t) ==
    LET req == Request("DELETE", BASE_URL_API \o "api_key/" \o api_key, Undefined, "default")
    IN  IF t.kind = "error" THEN CatchLog(req, t, t.reason)
        ELSE IF t.status = 200 THEN Run(<<req>>, <<>>, t, Returned(t.data))
        ELSE Run(<<req>>, <<>>, t, Returned(Undefined))

-----------------------------------------------------------------------------
(* getExamples: list a directory, keep the .json entries, download them all *)

MaxListing == 3

\* File names are sequences of characters so that endsWith is computed.
DotJson == <<".", "j", "s", "o", "n">>
endsWith(s, suffix) ==
    /\ Len(s) >= Len(suffix)
    /\ SubSeq(s, Len(s) - Len(suffix) + 1, Len(s)) = suffix

FileEntry(name, url) == [name |-> name, download_url |-> url]
FileEntries == {
    FileEntry(<<"a">> \o DotJson, "https://raw/a.json"),
    FileEntry(<<"b">> \o DotJson, "https://raw/b.json"),
    FileEntry(<<"R", ".", "m", "d">>, "https://raw/R.md"),
    FileEntry(<<"c">> \o DotJson \o <<".", "b", "a", "k">>, "https://raw/c.json.bak"),
    FileEntry(<<"j", "s", "o", "n">>, "https://raw/json") }

Listings == UNION {[1..n -> FileEntries] : n \in 0..MaxListing}

ExamplesUrl ==
    "https://api.github.com/repos/logspace-ai/langflow_examples/contents/examples?ref=main"

\* Variant: the listing is not filtered.
JsonFilesOf_unfiltered(listing) == listing

\* response.data.filter((file) => file.name.endsWith(".json"))
JsonFilesOf(listing) == SelectSeq(listing, LAMBDA file : endsWith(file.name, DotJson))

\* A download whose promise has not settled yet.
InFlight == [data |-> Undefined, reason |-> Undefined, kind |-> "inflight", status |-> 0]

\* What a download can answer; getExamples never looks at the status.
ContentOutcomes == {
    Response(200, Obj("ex1", Undefined, Undefined)),
    Response(200, Obj("ex2", Undefined, Undefined)),
    Failure(TransportError("Network Error")) }

\* jsonFiles.map(async (file) => ...) runs each callback up to its await, so
\* every download is requested before any of them settles.
ContentRequests(files) ==
    [i \in 1..Len(files) |-> Request("GET", files[i].download_url, Undefined, "default")]

\* Variant: Promise.allSettled-like gathering that waits for every download
\* and keeps the bodies of those that succeeded.
PromiseAll_allSettled(current, s, i) ==
    IF current.kind # "pending" THEN current
    ELSE IF \A j \in DOMAIN s : s[j].kind # "inflight"
         THEN Returned(Arr([j \in 1..Len(SelectSeq(s, LAMBDA r : r.kind = "response"))
                              |-> SelectSeq(s, LAMBDA r : r.kind = "response")[j].data]))
    ELSE Pending

\* Promise.all over the per-file promises, after one more of them settled:
\* the first rejection rejects it, the last fulfilment fulfils it with the
\* values placed by index, and once settled it never changes.
PromiseAll(current, s, i) ==
    IF current.kind # "pending" THEN current
    ELSE IF s[i].kind = "error" THEN Raised(s[i].reason)
    ELSE IF \A j \in DOMAIN s : s[j].kind = "response"
         THEN Returned(Arr([j \in DOMAIN s |-> s[j].data]))
    ELSE Pending

\* First half: the listing request, the filter and the fan-out of downloads.
\* A failed listing rejects getExamples; nothing catches or logs it.
getExamples ==
    /\ pc = "idle"
    /\ \E t \in {Response(200, Arr(l)) : l \in Listings}
                    \cup {Failure(e) : e \in TransportErrors} :
        LET listReq == Request("GET", ExamplesUrl, Undefined, "default")
            files == IF t.kind = "response" THEN JsonFilesOf(t.data.items) ELSE <<>>
        IN  /\ op' = "getExamples"
            /\ args' = <<>>
            /\ logs' = <<>>
            /\ transport' = t
            /\ reordered' = FALSE
            /\ jsonFiles' = files
            /\ settled' = [i \in 1..Len(files) |-> InFlight]
            /\ IF t.kind = "error"
               THEN /\ requests' = <<listReq>>
                    /\ outcome' = Raised(t.reason)
                    /\ pc' = "idle"
               ELSE /\ requests' = <<listReq>> \o ContentRequests(files)
                    /\ outcome' = IF Len(files) = 0 THEN Returned(Arr(<<>>)) ELSE Pending
                    /\ pc' = IF Len(files) = 0 THEN "idle" ELSE "fanout"

\* Second half: one download settles, in any order; its promise fulfils with
\* contentResponse.data or rejects, and Promise.all reacts.
contentSettles(i) ==
    /\ pc = "fanout"
    /\ i \in DOMAIN settled
    /\ settled[i] = InFlight
    /\ \E t \in ContentOutcomes :
        /\ settled' = [settled EXCEPT ![i] = t]
        /\ outcome' = PromiseAll(outcome, settled', i)
    /\ reordered' = (reordered \/ \E j \in 1..(i - 1) : settled[j] = InFlight)
    /\ pc' = IF \A j \in DOMAIN settled : j # i => settled[j] # InFlight
             THEN "idle" ELSE "fanout"
    /\ UNCHANGED <<op, args, requests, logs, transport, jsonFiles>>

-----------------------------------------------------------------------------
(* One action per single-request function: the call and its settlement *)

Complete(name, a, r) ==
    /\ pc = "idle"
    /\ pc' = "idle"
    /\ op' = name
    /\ args' = a
    /\ requests' = r.requests
    /\ logs' = r.logs
    /\ transport' = r.transport
    /\ outcome' = r.outcome
    /\ jsonFiles' = <<>>
    /\ settled' = <<>>
    /\ reordered' = FALSE

Do_getRepoStars ==
    \E owner \in Owners, repo \in Repos, t \in TransportOutcomes :
        Complete("getRepoStars", <<owner, repo>>, getRepoStars(owner, repo, t))
Do_saveFlowToDatabase ==
    \E newFlow \in Flows, t \in TransportOutcomes :
        Complete("saveFlowToDatabase", <<newFlow>>, saveFlowToDatabase(newFlow, t))
Do_updateFlowInDatabase ==
    \E updatedFlow \in Flows, t \in TransportOutcomes :
        Complete("updateFlowInDatabase", <<updatedFlow>>,
                 updateFlowInDatabase(updatedFlow, t))
Do_readFlowsFromDatabase ==
    \E t \in TransportOutcomes :
        Complete("readFlowsFromDatabase", <<>>, readFlowsFromDatabase(t))
Do_downloadFlowsFromDatabase ==
    \E t \in TransportOutcomes :
        Complete("downloadFlowsFromDatabase", <<>>, downloadFlowsFromDatabase(t))
Do_uploadFlowsToDatabase ==
    \E flows \in {[formData |-> "flows.json"]}, t \in TransportOutcomes :
        Complete("uploadFlowsToDatabase", <<flows>>, uploadFlowsToDatabase(flows, t))
Do_deleteFlowFromDatabase ==
    \E flowId \in FlowIds, t \in TransportOutcomes :
        Complete("deleteFlowFromDatabase", <<flowId>>, deleteFlowFromDatabase(flowId, t))
Do_getFlowFromDatabase ==
    \E flowId \in FlowNumbers, t \in TransportOutcomes :
        Complete("getFlowFromDatabase", <<flowId>>, getFlowFromDatabase(flowId, t))
Do_getFlowStylesFromDatabase ==
    \E t \in TransportOutcomes :
        Complete("getFlowStylesFromDatabase", <<>>, getFlowStylesFromDatabase(t))
Do_saveFlowStyleToDatabase ==
    \E flowStyle \in {[color |-> "red", flow_id |-> "f1"]}, t \in TransportOutcomes :
        Complete("saveFlowStyleToDatabase", <<flowStyle>>,
                 saveFlowStyleToDatabase(flowStyle, t))
Do_onLogin ==
    \E user \in Logins, t \in TransportOutcomes :
        Complete("onLogin", <<user>>, onLogin(user, t))
Do_autoLogin ==
    \E t \in TransportOutcomes : Complete("autoLogin", <<>>, autoLogin(t))
Do_renewAccessToken ==
    \E token \in Tokens, t \in TransportOutcomes :
        Complete("renewAccessToken", <<token>>, renewAccessToken(token, t))
Do_getLoggedUser ==
    \E t \in TransportOutcomes : Complete("getLoggedUser", <<>>, getLoggedUser(t))
Do_addUser ==
    \E user \in UserInputs, t \in TransportOutcomes :
        Complete("addUser", <<user>>, addUser(user, t))
Do_getUsersPage ==
    \E skip \in Skips, limit \in Limits, t \in TransportOutcomes :
        Complete("getUsersPage", <<skip, limit>>, getUsersPage(skip, limit, t))
Do_deleteUser ==
    \E user_id \in UserIds, t \in TransportOutcomes :
        Complete("deleteUser", <<user_id>>, deleteUser(user_id, t))
Do_updateUser ==
    \E user_id \in UserIds, user \in UserChanges, t \in TransportOutcomes :
        Complete("updateUser", <<user_id, user>>, updateUser(user_id, user, t))
Do_resetPassword ==
    \E user_id \in UserIds, user \in {[password |-> "new"]}, t \in TransportOutcomes :
        Complete("resetPassword", <<user_id, user>>, resetPassword(user_id, user, t))
Do_createApiKey ==
    \E name \in KeyNames, t \in TransportOutcomes :
        Complete("createApiKey", <<name>>, createApiKey(name, t))
Do_deleteApiKey ==
    \E api_key \in ApiKeys, t \in TransportOutcomes :
        Complete("deleteApiKey", <<api_key>>, deleteApiKey(api_key, t))

-----------------------------------------------------------------------------

Init ==
    /\ pc = "idle"
    /\ op = "none"
    /\ args = <<>>
    /\ requests = <<>>
    /\ logs = <<>>
    /\ transport = NoCall
    /\ outcome = Pending
    /\ jsonFiles = <<>>
    /\ settled = <<>>
    /\ reordered = FALSE

Next ==
    \/ getExamples
    \/ \E i \in 1..(MaxListing + 1) : contentSettles(i)
    \/ Do_getRepoStars
    \/ Do_saveFlowToDatabase
    \/ Do_updateFlowInDatabase
    \/ Do_readFlowsFromDatabase
    \/ Do_downloadFlowsFromDatabase
    \/ Do_uploadFlowsToDatabase
    \/ Do_deleteFlowFromDatabase
    \/ Do_getFlowFromDatabase
    \/ Do_getFlowStylesFromDatabase
    \/ Do_saveFlowStyleToDatabase
    \/ Do_onLogin
    \/ Do_autoLogin
    \/ Do_renewAccessToken
    \/ Do_getLoggedUser
    \/ Do_addUser
    \/ Do_getUsersPage
    \/ Do_deleteUser
    \/ Do_updateUser
    \/ Do_resetPassword
    \/ Do_createApiKey
    \/ Do_deleteApiKey

Spec == Init /\ [][Next]_vars

-----------------------------------------------------------------------------
(* Properties *)

\* C1 (as stated): each of the eleven mutating functions returns the body on
\* its expected status and, on any other status, raises an error carrying the
\* observed status code.
C1_Original ==
    LET expected == IF op \in {"saveFlowToDatabase", "uploadFlowsToDatabase",
                               "saveFlowStyleToDatabase", "addUser"}
                    THEN 201 ELSE 200
    IN  (/\ op \in {"saveFlowToDatabase", "updateFlowInDatabase",
                    "uploadFlowsToDatabase", "deleteFlowFromDatabase",
                    "saveFlowStyleToDatabase", "addUser", "deleteUser",
                    "updateUser", "resetPassword", "createApiKey", "deleteApiKey"}
         /\ transport.kind = "response")
        => IF transport.status = expected
           THEN outcome = Returned(transport.data)
           ELSE /\ outcome.kind = "raised"
                /\ outcome.value.message
                       = "HTTP error! status: " \o ToString(transport.status)

\* C1 (amended): on the expected status all eleven return the body.  On any
\* other status the five flow functions raise an error carrying the status,
\* addUser raises an error carrying the body's detail, and deleteUser,
\* updateUser, resetPassword, createApiKey and deleteApiKey return undefined.
C1_StatusPolicy ==
    /\ (/\ op \in {"saveFlowToDatabase", "uploadFlowsToDatabase",
                   "saveFlowStyleToDatabase"}
        /\ transport.kind = "response")
       => IF transport.status = 201
          THEN outcome = Returned(transport.data)
          ELSE outcome = Raised(NewError("HTTP error! status: "
                                             \o ToString(transport.status)))
    /\ (/\ op \in {"updateFlowInDatabase", "deleteFlowFromDatabase"}
        /\ transport.kind = "response")
       => IF transport.status = 200
          THEN outcome = Returned(transport.data)
          ELSE outcome = Raised(NewError("HTTP error! status: "
                                             \o ToString(transport.status)))
    /\ (op = "addUser" /\ transport.kind = "response")
       => IF transport.status = 201
          THEN outcome = Returned(transport.data)
          ELSE /\ outcome.kind = "raised"
               /\ outcome.value.origin = "local"
               /\ outcome.value.message = ToStr(Prop(transport.data, "detail"))
    /\ (/\ op \in {"deleteUser", "updateUser", "resetPassword", "createApiKey",
                   "deleteApiKey"}
        /\ transport.kind = "response")
       => IF transport.status = 200
          THEN outcome = Returned(transport.data)
          ELSE outcome = Returned(Undefined)

C1_Witness ==
    /\ op = "saveFlowToDatabase"
    /\ transport.kind = "response"
    /\ transport.status = 500
    /\ outcome.kind = "raised"
    /\ outcome.value.message = "HTTP error! status: 500"

\* C2: after a successful listing of N entries, M of them named *.json,
\* getExamples has issued exactly 1 + M GETs (the listing, then the
\* download_url of each filtered entry in listing order), and once every
\* download has succeeded it returns the M bodies in that same order,
\* whatever the order in which the downloads completed.
C2_ExamplesOrder ==
    (op = "getExamples" /\ transport.kind = "response") =>
        LET items == transport.data.items
            J == {k \in DOMAIN items :
                    \E n \in 0..Len(items[k].name) :
                        items[k].name = SubSeq(items[k].name, 1, n)
                                            \o <<".", "j", "s", "o", "n">>}
            M == Cardinality(J)
            Nth(i) == CHOOSE k \in J : Cardinality({j \in J : j < k}) = i - 1
        IN  /\ Len(requests) = 1 + M
            /\ \A r \in DOMAIN requests : requests[r].method = "GET"
            /\ requests[1].url = ExamplesUrl
            /\ \A i \in 1..M : requests[1 + i].url = items[Nth(i)].download_url
            /\ DOMAIN settled = 1..M
            /\ (\A i \in 1..M : settled[i].kind = "response")
               => /\ outcome.kind = "returned"
                  /\ outcome.value.t = "array"
                  /\ Len(outcome.value.items) = M
                  /\ \A i \in 1..M : outcome.value.items[i] = settled[i].data

C2_Witness ==
    /\ op = "getExamples"
    /\ outcome.kind = "returned"
    /\ Len(settled) = 2
    /\ Len(transport.data.items) = 3
    /\ settled[1].data # settled[2].data
    /\ reordered

\* C3: if any download fails getExamples raises (with the error of a failed
\* download) and never returns the bodies that did succeed; it returns a
\* value only when every download has completed successfully.
C3_AllOrNothing ==
    (op = "getExamples" /\ transport.kind = "response") =>
        /\ (\E i \in DOMAIN settled : settled[i].kind = "error")
           => /\ outcome.kind = "raised"
              /\ \E i \in DOMAIN settled :
                    settled[i].kind = "error" /\ outcome.value = settled[i].reason
        /\ outcome.kind = "returned"
           => \A i \in DOMAIN settled : settled[i].kind = "response"

C3_Witness ==
    /\ op = "getExamples"
    /\ Len(settled) = 2
    /\ settled[1].kind = "response"
    /\ settled[2].kind = "error"
    /\ outcome.kind = "raised"
    /\ reordered

\* C4: when the transport call of a database or user function raises e, the
\* function logs once, raises that same e, has issued exactly one request
\* and returns no value.
C4_RethrowSame ==
    (/\ op \in {"saveFlowToDatabase", "updateFlowInDatabase",
                "readFlowsFromDatabase", "downloadFlowsFromDatabase",
                "uploadFlowsToDatabase", "deleteFlowFromDatabase",
                "getFlowFromDatabase", "getFlowStylesFromDatabase",
                "saveFlowStyleToDatabase", "getLoggedUser", "addUser",
                "getUsersPage", "deleteUser", "updateUser", "resetPassword"}
     /\ transport.kind = "error")
    => /\ outcome = Raised(transport.reason)
       /\ Len(logs) = 1
       /\ logs[1].args[Len(logs[1].args)] = transport.reason
       /\ Len(requests) = 1

C4_Witness ==
    /\ op = "getUsersPage"
    /\ transport.kind = "error"
    /\ outcome.kind = "raised"
    /\ outcome.value.message = "HTTP error! status: 500"
    /\ Len(logs) = 1

\* C5: onLogin and autoLogin return the body on status 200 and return
\* undefined, raising nothing, on any other status.
C5_LoginStatus ==
    (op \in {"onLogin", "autoLogin"} /\ transport.kind = "response")
    => IF transport.status = 200
       THEN outcome = Returned(transport.data)
       ELSE outcome = Returned(Undefined)

C5_Witness ==
    /\ op = "autoLogin"
    /\ transport.kind = "response"
    /\ transport.status = 400
    /\ outcome = Returned(Undefined)

\* C6: getLoggedUser returns the body on status 200, propagates a raised
\* transport error, and returns null on any other status.
C6_LoggedUser ==
    op = "getLoggedUser" =>
        /\ (transport.kind = "response" /\ transport.status = 200)
           => outcome = Returned(transport.data)
        /\ transport.kind = "error" => outcome = Raised(transport.reason)
        /\ (transport.kind = "response" /\ transport.status # 200)
           => outcome = Returned(Null)
        /\ transport.kind \in {"response", "error"}

C6_Witness ==
    /\ op = "getLoggedUser"
    /\ transport.kind = "response"
    /\ transport.status = 204
    /\ outcome = Returned(Null)

\* C7: getUsersPage returns the body on status 200 and the empty sequence,
\* raising nothing, on any other status.
C7_UsersPage ==
    (op = "getUsersPage" /\ transport.kind = "response")
    => IF transport.status = 200
       THEN outcome = Returned(transport.data)
       ELSE outcome = Returned(Arr(<<>>))

C7_Witness ==
    /\ op = "getUsersPage"
    /\ transport.kind = "response"
    /\ transport.status = 500
    /\ outcome = Returned(Arr(<<>>))

\* C8: renewAccessToken with an empty token issues no request and returns
\* undefined; with a non-empty token it issues exactly one request, a POST to
\* the refresh endpoint with the token as its token query parameter.
C8_RenewToken ==
    op = "renewAccessToken" =>
        IF args[1] = ""
        THEN requests = <<>> /\ outcome = Returned(Undefined)
        ELSE /\ Len(requests) = 1
             /\ requests[1].method = "POST"
             /\ requests[1].url = "/api/v1/refresh?token=" \o args[1]

C8_Witness ==
    /\ op = "renewAccessToken"
    /\ args[1] = "tokA"
    /\ Len(requests) = 1
    /\ requests[1].url = "/api/v1/refresh?token=tokA"
    /\ outcome.kind = "returned"

\* C9: when the backend answers addUser with a status other than 201 and a
\* body carrying a detail text, addUser raises an error whose message is
\* exactly that text.
C9_AddUserDetail ==
    (/\ op = "addUser"
     /\ transport.kind = "response"
     /\ transport.status # 201
     /\ Prop(transport.data, "detail").t = "string")
    => /\ outcome.kind = "raised"
       /\ outcome.value.message = transport.data.detail.s

C9_Witness ==
    /\ op = "addUser"
    /\ transport.kind = "response"
    /\ transport.status = 400
    /\ outcome.kind = "raised"
    /\ outcome.value.message = "username taken"

\* C10: getRepoStars returns null, raising nothing, when the transport call
\* fails, and the stargazers_count of the body when it succeeds.
C10_RepoStars ==
    op = "getRepoStars" =>
        /\ transport.kind = "error" => outcome = Returned(Null)
        /\ transport.kind = "response"
           => outcome = Returned(Prop(transport.data, "stargazers_count"))

C10_Witness ==
    /\ op = "getRepoStars"
    /\ transport.kind = "error"
    /\ outcome = Returned(Null)
    /\ Len(logs) = 1

====
